---- MODULE Spec2Model ----
(***************************************************************************)
(* A model of cleanup.py (wildfir3/imgclean): one run of the script over a *)
(* directory tree.  The run loads the fingerprint cache, scans the tree,   *)
(* saves the cache, groups the scanned files into duplicate groups and     *)
(* relocates the groups' members, then saves the cache again.              *)
(*                                                                         *)
(* A path is a record [dir, stem, ext]: dir is the sequence of directory   *)
(* components exactly as the script writes them (a "." component is kept,  *)
(* as in "[Dupes]/./a.png"), stem is the file name without its extension   *)
(* and ext the extension with its dot.  The file system resolves a path    *)
(* with Norm, which drops the "." components.                              *)
(*                                                                         *)
(* Spec is a whole run.  HammingSpec and MoveSpec follow hamming and       *)
(* safely_move_file statement by statement, outside a run, on all inputs   *)
(* of a bounded size.                                                      *)
(***************************************************************************)
EXTENDS Integers, Sequences, FiniteSets, TLC

VARIABLES
    args,             \* the parsed command line (get_args)
    files,            \* the file system: normalised path -> file
    dirs,             \* the directories that exist (normalised dir sequences)
    cacheFile,        \* fingerprint.db: [exists, lines]
    cache,            \* the dict read_cache returned: path -> entry
    pc,               \* position of __main__
    walk,             \* directories os.walk still has to yield
    file_list,        \* file names of the directory being scanned not yet iterated
    root,             \* the directory being scanned
    infos,            \* the FileInfo objects: id -> [filepath, phash, width, height, crc32]
    fileinfos,        \* the list fileinfos: sequence of FileInfo ids
    keyed_file_list,  \* keys -> list of FileInfo ids (key: file name, crc32 or component root)
    edges,            \* the pairs the similarity loop linked (image-content mode)
    todo,             \* keys of keyed_file_list whose group is not yet relocated
    similar,          \* the group being relocated (sorted), <<>> between groups
    dup_i,            \* index of the next member of similar to rename
    master_noext,     \* master_filepath_without_extension
    origin,           \* history: id -> how the scan filled the record ("cache" / "computed")
    moves,            \* history: the calls of safely_move_file, in order
    saves,            \* history: the calls of write_cache that returned, in order
    error,            \* the exception that ended the run, "" if none
    frame             \* the locals of a function followed statement by statement
                      \* (hamming, safely_move_file); no frame during a whole run

vars == <<args, files, dirs, cacheFile, cache, pc, walk, file_list, root, infos,
          fileinfos, keyed_file_list, edges, todo, similar, dup_i, master_noext,
          origin, moves, saves, error, frame>>

\* the variables of a run other than the file system
runVars == <<args, cacheFile, cache, pc, walk, file_list, root, infos, fileinfos,
             keyed_file_list, edges, todo, similar, dup_i, master_noext, origin,
             moves, saves, error>>

(***************************************************************************)
(* Program constants                                                       *)
(***************************************************************************)
None == -1                       \* Python's None for phash, width, height
MIN_W == 1200
MIN_H == 675                     \* 1200*9.0/16
SIMILARITY_THRESH == 8
JUNK_FOLDER == "[Junk]"
DUPE_FOLDER == "[Dupes]"
SUPPORTED_IMAGE_CONTENT_FILE_EXTENSIONS == {".jpg", ".jpeg", ".png", ".bmp", ".tiff", ".tif"}

(***************************************************************************)
(* Bounds of the model                                                     *)
(***************************************************************************)
MaxFiles == 4                    \* files in the scanned tree
MaxCacheLines == 1               \* lines of the cache file found at start
MaxPreexisting == 1              \* files already in the quarantine folder
InitialMTime == 5                \* mtime of the files found at start
HashBits == 6                    \* width of the hashes hamming is followed on
MaxCollisions == 3               \* disambiguated names that may be taken already

(***************************************************************************)
(* Sequences                                                               *)
(***************************************************************************)
Range(s) == {s[i] : i \in 1..Len(s)}

RemoveAt(s, k) == [j \in 1..(Len(s) - 1) |-> IF j < k THEN s[j] ELSE s[j + 1]]

\* the index of the first element of s satisfying Test, 0 if none
FirstIndex(s, Test(_)) ==
    IF \E j \in 1..Len(s) : Test(s[j])
    THEN CHOOSE j \in 1..Len(s) : Test(s[j]) /\ \A k \in 1..(j - 1) : ~Test(s[k])
    ELSE 0

\* all orderings of a finite set, as sequences without repetition
Orderings(S) ==
    {s \in [1..Cardinality(S) -> S] : \A i, j \in 1..Cardinality(S) : i # j => s[i] # s[j]}

(***************************************************************************)
(* Paths: os.path.join, dirname, splitext, and the file system's view      *)
(***************************************************************************)
Path(d, s, e) == [dir |-> d, stem |-> s, ext |-> e]

RECURSIVE DropDots(_)
DropDots(d) ==
    IF d = <<>> THEN <<>>
    ELSE IF Head(d) = "." THEN DropDots(Tail(d))
    ELSE <<Head(d)>> \o DropDots(Tail(d))

\* the file the operating system resolves path p to
Norm(p) == [p EXCEPT !.dir = DropDots(p.dir)]

\* os.path.dirname
dirname(p) == p.dir

\* os.path.splitext(p)[0]: the path without its extension
splitext0(p) == [dir |-> p.dir, stem |-> p.stem]

\* os.path.splitext(p)[1]
splitext1(p) == p.ext

\* os.path.join(d, p) for a relative path p: the components of p follow d
join(d, p) == [p EXCEPT !.dir = d \o p.dir]

\* os.path.exists for a file path
exists(fs, p) == Norm(p) \in DOMAIN fs

\* all prefixes of a directory, the directory included (os.makedirs)
Ancestors(d) == {SubSeq(d, 1, k) : k \in 0..Len(d)}

(***************************************************************************)
(* Bit operations on naturals and hamming (cleanup.py:130-136)             *)
(***************************************************************************)
RECURSIVE BitAnd(_, _)
BitAnd(a, b) ==
    IF a = 0 \/ b = 0 THEN 0
    ELSE (a % 2) * (b % 2) + 2 * BitAnd(a \div 2, b \div 2)

\* h1 | h2 in place of h1 ^ h2
RECURSIVE BitXor_Or(_, _)
BitXor_Or(a, b) ==
    IF a = 0 THEN b
    ELSE IF b = 0 THEN a
    ELSE (IF (a % 2) + (b % 2) > 0 THEN 1 ELSE 0) + 2 * BitXor_Or(a \div 2, b \div 2)

RECURSIVE BitXor(_, _)
BitXor(a, b) ==
    IF a = 0 THEN b
    ELSE IF b = 0 THEN a
    ELSE (((a % 2) + (b % 2)) % 2) + 2 * BitXor(a \div 2, b \div 2)

\* the while loop of hamming: h counts the bits cleared from d
RECURSIVE HammingLoop(_, _)
HammingLoop(h, d) == IF d = 0 THEN h ELSE HammingLoop(h + 1, BitAnd(d, d - 1))

hamming(h1, h2) == HammingLoop(0, BitXor(h1, h2))

(***************************************************************************)
(* Files and their fingerprints (FileInfo, cleanup.py:25-97)               *)
(*                                                                         *)
(* A file's content is abstracted to what the Fingerprint Computer derives *)
(* from its bytes: the CRC-32 string and, when the bytes decode as an      *)
(* image, the perceptual hash and the pixel dimensions.                    *)
(***************************************************************************)
Content(c, ph, w, h) == [crc |-> c, phash |-> ph, width |-> w, height |-> h]

K0 == Content("c0", 0, 100, 40)          \* an all-dark image: every bit 0, area 4000
K1 == Content("c1", 15, 100, 90)         \* area 9000
K2 == Content("c2", 255, 50, 20)         \* area 1000
KN == Content("c3", None, None, None)    \* bytes that do not decode as an image
KBig == Content("c4", 15, 1600, 900)     \* an image of at least the minimum size
KOld == Content("c9", None, None, None)  \* a file left in the quarantine folder earlier

\* FileInfo.__init__
FileInfo(filepath) ==
    [filepath |-> filepath, phash |-> None, width |-> None, height |-> None, crc32 |-> "None"]

\* FileInfo.is_image
is_image(fi) == fi.filepath.ext \in SUPPORTED_IMAGE_CONTENT_FILE_EXTENSIONS

\* FileInfo.compute_phash with _load_image: file is the file at fi.filepath
compute_phash(fi, file) ==
    IF ~is_image(fi) THEN fi
    ELSE IF file.content.phash = None THEN fi
    ELSE [fi EXCEPT !.height = file.content.height, !.width = file.content.width,
                    !.phash = file.content.phash]

\* FileInfo.compute_crc32
compute_crc32(fi, file) == [fi EXCEPT !.crc32 = file.content.crc]

\* too_small: Image.open raises IOError for bytes that are no image (False);
\* falling off the end returns None, which is false too
too_small(file) ==
    /\ file.content.width # None
    /\ (file.content.width < MIN_W \/ file.content.height < MIN_H)

(***************************************************************************)
(* The cache file (read_cache, write_cache, cleanup.py:163-194)            *)
(*                                                                         *)
(* A line is [path, rest]: the path field, then the tab separated fields   *)
(* that follow it.  A field is text: decimal digits, nothing, or other     *)
(* text.                                                                   *)
(***************************************************************************)
Digits(n) == [kind |-> "digits", n |-> n, s |-> ""]
Empty == [kind |-> "empty", n |-> 0, s |-> ""]
Text(s) == [kind |-> "text", n |-> 0, s |-> s]

EmptyDict == [x \in {} |-> 0]

Put(f, k, v) == [x \in (DOMAIN f) \cup {k} |-> IF x = k THEN v ELSE f[x]]

\* '%s' % (v or ''): None and 0 are both falsy
FormatOrEmpty(v) == IF v = None \/ v = 0 THEN Empty ELSE Digits(v)

\* '%s' % v for a string
FormatStr(s) == Text(s)

\* int(field): whether it raises, and its value
IsInt(f) == f.kind = "digits"

\* int(field) if field else None
IntOrNone(f) == IF f.kind = "empty" THEN None ELSE f.n

\* the string read back from a field
FieldStr(f) == IF f.kind = "digits" THEN ToString(f.n) ELSE f.s

\* l.strip(): trailing whitespace, the tabs of trailing empty fields included, is cut
RECURSIVE StripFields(_)
StripFields(rest) ==
    IF rest # <<>> /\ rest[Len(rest)].kind = "empty"
    THEN StripFields(SubSeq(rest, 1, Len(rest) - 1))
    ELSE rest

\* whether the dict assignment of read_cache's loop body succeeds for a line
LineParses(line) ==
    LET f == StripFields(line.rest) IN
        /\ Len(f) >= 5
        /\ IsInt(f[1])
        /\ f[2].kind # "text"
        /\ f[3].kind # "text"
        /\ f[4].kind # "text"

\* the entry the loop body stores for a line that parses
LineEntry(line) ==
    LET f == StripFields(line.rest) IN
        [mtime |-> f[1].n, phash |-> IntOrNone(f[2]), width |-> IntOrNone(f[3]),
         height |-> IntOrNone(f[4]), crc32 |-> FieldStr(f[5])]

\* the loop of read_cache over lines k.. with the dict built so far
RECURSIVE ReadLines(_, _, _)
ReadLines(lines, k, acc) ==
    IF k > Len(lines) THEN [raised |-> "", cache |-> acc]
    ELSE IF LineParses(lines[k])
    THEN ReadLines(lines, k + 1, Put(acc, lines[k].path, LineEntry(lines[k])))
    ELSE \* the except branch: the warning calls line.encode on a list, and the
         \* AttributeError leaves read_cache
         [raised |-> "AttributeError", cache |-> acc]

read_cache(cf) ==
    IF ~cf.exists THEN [raised |-> "ValueError", cache |-> EmptyDict]
    ELSE ReadLines(cf.lines, 1, EmptyDict)

\* os.path.getmtime: -1 stands for the OSError of a missing file
getmtime(fs, p) == IF exists(fs, p) THEN fs[Norm(p)].mtime ELSE -1

\* the line write_cache writes for a record
CacheLine(fi, mtime) ==
    [path |-> fi.filepath,
     rest |-> <<Digits(mtime), FormatOrEmpty(fi.phash), FormatOrEmpty(fi.width),
                FormatOrEmpty(fi.height), FormatStr(fi.crc32)>>]

\* the loop of write_cache: the lines written until a getmtime raises
RECURSIVE WriteLines(_, _, _, _)
WriteLines(fs, recs, k, acc) ==
    IF k > Len(recs) THEN [raised |-> "", lines |-> acc]
    ELSE IF ~exists(fs, recs[k].filepath) THEN [raised |-> "OSError", lines |-> acc]
    ELSE WriteLines(fs, recs, k + 1,
                    Append(acc, CacheLine(recs[k], getmtime(fs, recs[k].filepath))))

\* write_cache(fileinfos): the file it leaves, and what it raised
write_cache(cf, fs, recs) ==
    IF Len(recs) = 0 THEN [raised |-> "", file |-> cf]
    ELSE LET w == WriteLines(fs, recs, 1, <<>>) IN
             [raised |-> w.raised, file |-> [exists |-> TRUE, lines |-> w.lines]]

(***************************************************************************)
(* create_folder and safely_move_file (cleanup.py:197-222)                 *)
(***************************************************************************)
\* create_folder: os.makedirs creates the directory and its missing parents
create_folder(ds, name) == ds \cup Ancestors(DropDots(name))

\* the while loop of safely_move_file: the first target that does not exist
RECURSIVE FreeTarget(_, _, _, _, _)
FreeTarget(fs, source, target_file_directory, target_filepath, rename_counter) ==
    IF ~exists(fs, target_filepath) THEN target_filepath
    ELSE LET new_filename ==
                 Path(source.dir, source.stem \o "-" \o ToString(rename_counter), source.ext)
         IN FreeTarget(fs, source, target_file_directory,
                       join(target_file_directory, new_filename), rename_counter + 1)

\* os.rename(src, dst): OSError when src is missing or dst's directory is missing
RenameRaises(fs, ds, src, dst) ==
    ~exists(fs, src) \/ DropDots(dirname(dst)) \notin ds

Rename(fs, src, dst) ==
    [p \in ((DOMAIN fs) \ {Norm(src)}) \cup {Norm(dst)} |->
        IF p = Norm(dst) THEN fs[Norm(src)] ELSE fs[p]]

\* safely_move_file(fileinfo, target_filepath), fileinfo_filepath being
\* fileinfo.filepath at the time of the call
safely_move_file(fs, ds, fileinfo_filepath, target_filepath) ==
    LET target_file_directory == dirname(target_filepath)
        ds2 == create_folder(ds, target_file_directory)
        final == FreeTarget(fs, fileinfo_filepath, target_file_directory, target_filepath, 0)
    IN  IF RenameRaises(fs, ds2, fileinfo_filepath, final)
        THEN [raised |-> "OSError", files |-> fs, dirs |-> ds2, final |-> final]
        ELSE [raised |-> "", files |-> Rename(fs, fileinfo_filepath, final),
              dirs |-> ds2, final |-> final]

(***************************************************************************)
(* Grouping: the similarity graph and amalgamate (cleanup.py:139-160,      *)
(* 335-353), and the sort of a group (cleanup.py:358)                      *)
(***************************************************************************)
\* the test of line 347 without the checks of lines 342 and 345, an absent
\* hash counting as 0
Similar_NullAsZero(fa, fb) ==
    hamming(IF fa.phash = None THEN 0 ELSE fa.phash,
            IF fb.phash = None THEN 0 ELSE fb.phash) < SIMILARITY_THRESH

\* the test of line 347 for two records
Similar(fa, fb) ==
    fa.phash # None /\ fb.phash # None /\ hamming(fa.phash, fb.phash) < SIMILARITY_THRESH

\* the pairs of positions i < j of the list that the double loop links
SimilarityEdges(recs, ids) ==
    {{ids[i], ids[j]} : <<i, j>> \in
        {q \in (1..Len(ids)) \X (1..Len(ids)) : q[1] < q[2] /\ Similar(recs[ids[q[1]]], recs[ids[q[2]]])}}

\* keyed_file_list after the double loop: each linked record's list of linked
\* records, in the order the loop appended them
SimilarityGraph(recs, ids) ==
    LET E == SimilarityEdges(recs, ids)
        Linked(x, y) == x # y /\ {x, y} \in E
        keys == {x \in Range(ids) : \E y \in Range(ids) : Linked(x, y)}
    IN  [x \in keys |-> SelectSeq(ids, LAMBDA y : Linked(x, y))]

\* dfs without the recursive call: only the direct neighbours are collected
RECURSIVE dfs_Shallow(_, _, _, _, _)
dfs_Shallow(recs, amalgams, st, current, k) ==
    IF current \notin DOMAIN amalgams THEN st
    ELSE IF k > Len(amalgams[current]) THEN st
    ELSE LET c == amalgams[current][k] IN
         IF recs[c].filepath \in st.visited
         THEN dfs_Shallow(recs, amalgams, st, current, k + 1)
         ELSE dfs_Shallow(recs, amalgams,
                          [visited |-> st.visited \cup {recs[c].filepath},
                           component |-> Append(st.component, c)],
                          current, k + 1)

\* dfs of amalgamate, from position k of amalgams[current]; st is [visited, component]
RECURSIVE dfs(_, _, _, _, _)
dfs(recs, amalgams, st, current, k) ==
    IF current \notin DOMAIN amalgams THEN st            \* except KeyError: pass
    ELSE IF k > Len(amalgams[current]) THEN st
    ELSE LET c == amalgams[current][k] IN
         IF recs[c].filepath \in st.visited
         THEN dfs(recs, amalgams, st, current, k + 1)
         ELSE dfs(recs, amalgams,
                  dfs(recs, amalgams,
                      [visited |-> st.visited \cup {recs[c].filepath},
                       component |-> Append(st.component, c)], c, 1),
                  current, k + 1)

\* the loop of amalgamate without the test of line 156: every key starts a
\* component of its own
RECURSIVE AmalgamateLoop_Unvisited(_, _, _, _, _)
AmalgamateLoop_Unvisited(recs, amalgams, order, k, st) ==
    IF k > Len(order) THEN st.components
    ELSE LET i == order[k]
             r == dfs(recs, amalgams,
                      [visited |-> {recs[i].filepath}, component |-> <<i>>], i, 1)
         IN AmalgamateLoop_Unvisited(recs, amalgams, order, k + 1,
                                     [visited |-> r.visited,
                                      components |-> Put(st.components, i, r.component)])

\* the loop of amalgamate over the dict's keys in iteration order `order`, from
\* position k; st is [visited, components]
RECURSIVE AmalgamateLoop(_, _, _, _, _)
AmalgamateLoop(recs, amalgams, order, k, st) ==
    IF k > Len(order) THEN st.components
    ELSE LET i == order[k] IN
         IF recs[i].filepath \in st.visited
         THEN AmalgamateLoop(recs, amalgams, order, k + 1, st)
         ELSE LET r == dfs(recs, amalgams,
                           [visited |-> st.visited \cup {recs[i].filepath},
                            component |-> <<i>>], i, 1)
              IN AmalgamateLoop(recs, amalgams, order, k + 1,
                                [visited |-> r.visited,
                                 components |-> Put(st.components, i, r.component)])

amalgamate(recs, amalgams, order) ==
    AmalgamateLoop(recs, amalgams, order, 1, [visited |-> {}, components |-> EmptyDict])

\* the sort key of line 358
Area(f) == f.height * f.width

\* x placed into the sorted list s, before the first element whose key is not larger
InsertDesc(recs, x, s) ==
    LET k == FirstIndex(s, LAMBDA y : Area(recs[y]) <= Area(recs[x])) IN
        IF k = 0 THEN Append(s, x)
        ELSE SubSeq(s, 1, k - 1) \o <<x>> \o SubSeq(s, k, Len(s))

\* the sort without reverse = True: smallest first
RECURSIVE SortByAreaDesc_Ascending(_, _)
SortByAreaDesc_Ascending(recs, s) ==
    IF Len(s) <= 1 THEN s
    ELSE LET rest == SortByAreaDesc_Ascending(recs, Tail(s))
             k == FirstIndex(rest, LAMBDA y : Area(recs[y]) >= Area(recs[Head(s)]))
         IN  IF k = 0 THEN Append(rest, Head(s))
             ELSE SubSeq(rest, 1, k - 1) \o <<Head(s)>> \o SubSeq(rest, k, Len(rest))

\* similar.sort(key = area, reverse = True): stable, largest first
RECURSIVE SortByAreaDesc(_, _)
SortByAreaDesc(recs, s) ==
    IF Len(s) <= 1 THEN s ELSE InsertDesc(recs, Head(s), SortByAreaDesc(recs, Tail(s)))

(***************************************************************************)
(* The inputs of a run: the command line, the tree, the quarantine folder  *)
(* as an earlier run left it, and the cache file                           *)
(***************************************************************************)
PA == Path(<<".">>, "a", ".png")
PB == Path(<<".">>, "b", ".jpg")
PV == Path(<<".">>, "a_v1", ".jpg")
PS == Path(<<".", "sub">>, "a", ".png")
QA == Path(<<DUPE_FOLDER>>, "a", ".png")
QV == Path(<<DUPE_FOLDER>>, "a_v1", ".jpg")

Candidate(p, c) == [path |-> p, content |-> c]

TreeCandidates ==
    {Candidate(PA, c) : c \in {K0, K1, KBig}}
        \cup {Candidate(PB, c) : c \in {K0, K1, K2, KN, KBig}}
        \cup {Candidate(PV, K2), Candidate(PS, K0)}

QuarantineCandidates == {Candidate(QA, KOld), Candidate(QV, KOld)}

DistinctPaths(T) == \A x, y \in T : x.path = y.path => x = y

Trees == {T \in SUBSET TreeCandidates : Cardinality(T) <= MaxFiles /\ DistinctPaths(T)}

Quarantines == {Q \in SUBSET QuarantineCandidates : Cardinality(Q) <= MaxPreexisting}

FileSystem(T) ==
    [p \in {Norm(x.path) : x \in T} |->
        LET x == CHOOSE y \in T : Norm(y.path) = p IN
            [origin |-> p, content |-> x.content, mtime |-> InitialMTime]]

Directories(fs) == {<<>>} \cup UNION {Ancestors(p.dir) : p \in DOMAIN fs}

\* the lines an earlier run wrote for ./a.png and for a ./b.jpg it could not
\* decode, and two lines damaged since
GoodLines ==
    {CacheLine([FileInfo(PA) EXCEPT !.phash = K1.phash, !.width = K1.width,
                                    !.height = K1.height, !.crc32 = K1.crc], m) :
        m \in {InitialMTime - 1, InitialMTime, InitialMTime + 1}}
        \cup {CacheLine([FileInfo(PB) EXCEPT !.crc32 = KN.crc], InitialMTime)}

BadLines ==
    {[path |-> PA, rest |-> <<Text("x"), Empty, Empty, Empty, Text("c0")>>],
     [path |-> PB, rest |-> <<Digits(InitialMTime)>>]}

CacheFiles ==
    {[exists |-> FALSE, lines |-> <<>>]} \cup
    {[exists |-> TRUE, lines |-> l] :
        l \in UNION {Orderings(S) : S \in {X \in SUBSET (GoodLines \cup BadLines) :
                                              Cardinality(X) \in 1..MaxCacheLines}}}

\* the command lines: one detection mode each; the threshold option is given in
\* image-content mode only.  Init leaves out the combinations in which an input
\* has no effect (files in the quarantine folder without -d, no -r without a
\* subfolder, an image of the minimum size without -s), and varies the cache
\* file under the default options.
ArgSets ==
    {[filename_match |-> m[1], crc_match |-> m[2], move_suspected_duplicates |-> d,
      recursive |-> r, remove_small |-> s, threshold |-> t] :
        m \in {<<FALSE, FALSE>>, <<TRUE, FALSE>>, <<FALSE, TRUE>>},
        d \in BOOLEAN, r \in BOOLEAN, s \in BOOLEAN,
        t \in {SIMILARITY_THRESH \div 2, SIMILARITY_THRESH}}

NoFrame == [fn |-> "none"]

\* image_content after line 268
image_content == ~args.filename_match /\ ~args.crc_match

Init ==
    \E a \in ArgSets, T \in Trees, Q \in Quarantines, cf \in CacheFiles :
        /\ (a.filename_match \/ a.crc_match) => a.threshold = SIMILARITY_THRESH
        /\ ~a.move_suspected_duplicates => Q = {}
        /\ ~a.recursive => \E x \in T : Len(x.path.dir) > 1
        /\ cf.exists => Q = {} /\ a.threshold = SIMILARITY_THRESH /\ a.recursive
        /\ a.remove_small => Q = {} /\ a.threshold = SIMILARITY_THRESH /\ ~cf.exists
        /\ (\E x \in T : x.content = KBig) => a.remove_small
        /\ args = a
        /\ files = FileSystem(T \cup Q)
        /\ dirs = Directories(FileSystem(T \cup Q))
        /\ cacheFile = cf
        /\ cache = EmptyDict
        /\ pc = "start"
        /\ walk = <<>>
        /\ file_list = {}
        /\ root = <<>>
        /\ infos = EmptyDict
        /\ fileinfos = <<>>
        /\ keyed_file_list = EmptyDict
        /\ edges = {}
        /\ todo = {}
        /\ similar = <<>>
        /\ dup_i = 0
        /\ master_noext = splitext0(Path(<<>>, "", ""))
        /\ origin = EmptyDict
        /\ moves = <<>>
        /\ saves = <<>>
        /\ error = ""
        /\ frame = NoFrame

scanVars == <<walk, file_list, root, infos, fileinfos, keyed_file_list, origin>>
groupVars == <<edges, todo, similar, dup_i, master_noext>>

\* an uncaught exception ends the run
Crash(exc) == pc' = "crashed" /\ error' = exc

(***************************************************************************)
(* __main__ up to the scan (cleanup.py:225-249): the quarantine folder is  *)
(* created, the cache is read                                              *)
(***************************************************************************)
Startup ==
    /\ pc = "start"
    /\ LET junk == IF args.remove_small THEN create_folder(dirs, <<JUNK_FOLDER>>) ELSE dirs
       IN  dirs' = IF args.move_suspected_duplicates
                   THEN create_folder(junk, <<DUPE_FOLDER>>) ELSE junk
    /\ LET r == read_cache(cacheFile) IN
          IF r.raised = "ValueError"
          THEN cache' = EmptyDict /\ pc' = "scan" /\ error' = error    \* except ValueError
          ELSE IF r.raised # ""
          THEN cache' = cache /\ Crash(r.raised)
          ELSE cache' = r.cache /\ pc' = "scan" /\ error' = error
    /\ walk' = << <<".">> >>
    /\ UNCHANGED <<frame, args, files, cacheFile, file_list, root, infos, fileinfos,
                   keyed_file_list, origin, moves, saves>>
    /\ UNCHANGED groupVars

(***************************************************************************)
(* The scan (cleanup.py:270-328)                                           *)
(***************************************************************************)
ExcludedDirs == {JUNK_FOLDER, DUPE_FOLDER, "$RECYCLE.BIN", ".Trash"}

\* file_list of os.walk for directory d
FilesIn(fs, d) ==
    {[stem |-> p.stem, ext |-> p.ext] : p \in {q \in DOMAIN fs : q.dir = DropDots(d)}}

\* dir_list of os.walk for directory d, after the filter of line 275
SubDirs(ds, d) ==
    {d \o <<c[Len(c)]>> : c \in {x \in ds : /\ Len(x) = Len(DropDots(d)) + 1
                                            /\ SubSeq(x, 1, Len(x) - 1) = DropDots(d)
                                            /\ x[Len(x)] \notin ExcludedDirs}}

\* CacheTrusted without the comparison of the modification times
CacheTrusted_AnyMTime(c, fs, filepath) == filepath \in DOMAIN c

\* the test of line 304, a KeyError counting as false
CacheTrusted(c, fs, filepath) ==
    filepath \in DOMAIN c /\ c[filepath].mtime = getmtime(fs, filepath)

\* lines 305-306: the four attributes are set from the cache entry
FromCache(fi, entry) ==
    [fi EXCEPT !.phash = entry.phash, !.width = entry.width,
               !.height = entry.height, !.crc32 = entry.crc32]

\* lines 309-310 and 314-315
Computed(fi, file) == compute_crc32(compute_phash(fi, file), file)

\* lines 302-316
LookupOrCompute(c, fs, fi) ==
    IF CacheTrusted(c, fs, fi.filepath) THEN FromCache(fi, c[fi.filepath])
    ELSE Computed(fi, fs[Norm(fi.filepath)])

\* keyed_file_list[key].append(id) on a defaultdict(list)
AppendKeyed(k, key, id) ==
    Put(k, key, Append(IF key \in DOMAIN k THEN k[key] ELSE <<>>, id))

\* os.walk yields the next directory (line 273); its subdirectories come next,
\* in the order the operating system lists them
NextDirectory ==
    /\ pc = "scan"
    /\ file_list = {}
    /\ walk # <<>>
    /\ root = <<>> \/ args.recursive
    /\ root' = Head(walk)
    /\ file_list' = FilesIn(files, Head(walk))
    /\ \E sub \in Orderings(SubDirs(dirs, Head(walk))) : walk' = sub \o Tail(walk)
    /\ UNCHANGED <<frame, args, files, dirs, cacheFile, cache, pc, infos, fileinfos,
                   keyed_file_list, origin, moves, saves, error>>
    /\ UNCHANGED groupVars

\* one iteration of the loop over file_list (lines 280-323), in listing order
ScanFile ==
    /\ pc = "scan"
    /\ \E name \in file_list :
        LET filepath == Path(root, name.stem, name.ext)
            fileinfo == FileInfo(filepath)
            id == Cardinality(DOMAIN infos) + 1
            filled == LookupOrCompute(cache, files, fileinfo)
            junk_file_path == join(<<JUNK_FOLDER>>, filepath)
            junk_file_directory == dirname(junk_file_path)
        IN  /\ file_list' = file_list \ {name}
            /\ IF image_content /\ ~is_image(fileinfo)
               THEN UNCHANGED <<files, dirs, infos, fileinfos, keyed_file_list, origin>>
               ELSE IF args.remove_small /\ too_small(files[Norm(filepath)])
               THEN \* lines 292-300: the file goes to the junk folder, an OSError
                    \* of os.rename is caught, and no record is made
                    /\ dirs' = create_folder(dirs, junk_file_directory)
                    /\ files' = IF RenameRaises(files, dirs', filepath, junk_file_path)
                                THEN files
                                ELSE Rename(files, filepath, junk_file_path)
                    /\ UNCHANGED <<infos, fileinfos, keyed_file_list, origin>>
               ELSE /\ UNCHANGED <<files, dirs>>
                    /\ infos' = Put(infos, id, filled)
                    /\ fileinfos' = Append(fileinfos, id)
                    /\ origin' = Put(origin, id,
                                     [from |-> IF CacheTrusted(cache, files, filepath)
                                               THEN "cache" ELSE "computed",
                                      path |-> filepath])
                    /\ keyed_file_list' =
                           IF args.filename_match
                           THEN AppendKeyed(keyed_file_list, name.stem \o name.ext, id)
                           ELSE IF args.crc_match
                           THEN AppendKeyed(keyed_file_list, filled.crc32, id)
                           ELSE keyed_file_list
    /\ UNCHANGED <<frame, args, cacheFile, cache, pc, walk, root, moves, saves, error>>
    /\ UNCHANGED groupVars

\* the walk is over: no directory is left, or line 327 breaks out of it
EndScan ==
    /\ pc = "scan"
    /\ file_list = {}
    /\ walk = <<>> \/ (root # <<>> /\ ~args.recursive)
    /\ pc' = "save1"
    /\ UNCHANGED <<frame, args, files, dirs, cacheFile, cache, moves, saves, error>>
    /\ UNCHANGED scanVars
    /\ UNCHANGED groupVars

(***************************************************************************)
(* The two saves (cleanup.py:330 and 388)                                  *)
(***************************************************************************)
Records == [k \in 1..Len(fileinfos) |-> infos[fileinfos[k]]]

WriteCache(next) ==
    LET w == write_cache(cacheFile, files, Records) IN
        /\ cacheFile' = w.file
        /\ IF w.raised # ""
           THEN Crash(w.raised) /\ saves' = saves
           ELSE /\ pc' = next
                /\ error' = error
                /\ saves' = Append(saves, [moved |-> Len(moves), records |-> Len(fileinfos)])
        /\ UNCHANGED <<frame, args, files, dirs, cache, moves>>
        /\ UNCHANGED scanVars
        /\ UNCHANGED groupVars

\* the run without its first save
SaveAfterScan_Skipped ==
    /\ pc = "save1"
    /\ pc' = "group"
    /\ UNCHANGED <<frame, args, files, dirs, cacheFile, cache, moves, saves, error>>
    /\ UNCHANGED scanVars
    /\ UNCHANGED groupVars

SaveAfterScan == pc = "save1" /\ WriteCache("group")

SaveAfterRelocation == pc = "save2" /\ WriteCache("done")

(***************************************************************************)
(* Grouping (cleanup.py:335-353)                                           *)
(***************************************************************************)
\* line 337: the keys with more than one file
WithoutSingletons(k) == [key \in {x \in DOMAIN k : Len(k[x]) > 1} |-> k[key]]

\* keyed_file_list becomes the groups; a dict of objects iterates in any order
FindDuplicates ==
    /\ pc = "group"
    /\ IF args.filename_match \/ args.crc_match
       THEN /\ keyed_file_list' = WithoutSingletons(keyed_file_list)
            /\ edges' = edges
       ELSE LET amalgams == SimilarityGraph(infos, fileinfos) IN
            /\ edges' = SimilarityEdges(infos, fileinfos)
            /\ \E order \in Orderings(DOMAIN amalgams) :
                   keyed_file_list' = amalgamate(infos, amalgams, order)
    /\ todo' = DOMAIN keyed_file_list'
    /\ pc' = "relocate"
    /\ UNCHANGED <<frame, args, files, dirs, cacheFile, cache, walk, file_list, root, infos,
                   fileinfos, origin, moves, saves, error, similar, dup_i, master_noext>>

(***************************************************************************)
(* Relocation (cleanup.py:355-386)                                         *)
(***************************************************************************)
\* the index the list comprehensions of lines 369 and 378 select, 0 for the
\* IndexError of an empty list
IndexOfPath(recs, ids, filepath) == FirstIndex(ids, LAMBDA f : recs[f].filepath = filepath)

\* line 376
VersionedPath(noext, i, extension) ==
    Path(noext.dir, noext.stem \o "_v" \o ToString(i), extension)

\* the record of one call of safely_move_file
MoveRecord(id, index, original, source, requested, m, before, noext) ==
    [id |-> id, index |-> index, original |-> original, source |-> source,
     requested |-> requested, final |-> m.final, raised |-> m.raised,
     before |-> before, after |-> m.files, master |-> noext]

\* the head of the loop body, lines 356-370: the group is sorted, its master is
\* chosen and, in quarantine mode, moved and dropped from fileinfos
BeginGroup ==
    /\ pc = "relocate"
    /\ similar = <<>>
    /\ \E key \in todo :
        LET group == IF image_content
                     THEN SortByAreaDesc(infos, keyed_file_list[key])
                     ELSE keyed_file_list[key]
            master_filepath == infos[group[1]].filepath
            duplicate_master_filepath == join(<<DUPE_FOLDER>>, master_filepath)
            m == safely_move_file(files, dirs, infos[group[1]].filepath,
                                  duplicate_master_filepath)
            index_to_remove == IndexOfPath(infos, fileinfos, master_filepath)
        IN  /\ todo' = todo \ {key}
            /\ similar' = group
            /\ dup_i' = 2
            /\ IF ~args.move_suspected_duplicates
               THEN /\ master_noext' = splitext0(master_filepath)
                    /\ UNCHANGED <<files, dirs, fileinfos, moves, pc, error>>
               ELSE /\ moves' = Append(moves, MoveRecord(group[1], 0, master_filepath,
                                                         master_filepath,
                                                         duplicate_master_filepath, m, files,
                                                         splitext0(m.final)))
                    /\ files' = m.files
                    /\ dirs' = m.dirs
                    /\ IF m.raised # ""
                       THEN Crash(m.raised) /\ UNCHANGED <<master_noext, fileinfos>>
                       ELSE IF index_to_remove = 0
                       THEN Crash("IndexError") /\ UNCHANGED <<master_noext, fileinfos>>
                       ELSE /\ master_noext' = splitext0(m.final)
                            /\ fileinfos' = RemoveAt(fileinfos, index_to_remove)
                            /\ UNCHANGED <<pc, error>>
    /\ UNCHANGED <<frame, args, cacheFile, cache, walk, file_list, root, infos,
                   keyed_file_list, origin, edges, saves>>

\* one iteration of the inner loop, lines 373-386, for member similar[dup_i]
RenameDuplicate ==
    /\ pc = "relocate"
    /\ similar # <<>>
    /\ dup_i <= Len(similar)
    /\ LET i == dup_i - 1
           duplicate_fileinfo == similar[dup_i]
           duplicate_filepath == infos[duplicate_fileinfo].filepath
           duplicate_file_extension == splitext1(duplicate_filepath)
           new_duplicate_filepath == VersionedPath(master_noext, i, duplicate_file_extension)
           fileinfo_index_to_update == IndexOfPath(infos, fileinfos, duplicate_filepath)
           infos2 == IF args.move_suspected_duplicates THEN infos
                     ELSE [infos EXCEPT ![fileinfos[fileinfo_index_to_update]].filepath =
                                            new_duplicate_filepath]
           \* line 386 reads duplicate_fileinfo.filepath after line 384 wrote it
           m == safely_move_file(files, dirs, infos2[duplicate_fileinfo].filepath,
                                 new_duplicate_filepath)
       IN  IF fileinfo_index_to_update = 0
           THEN Crash("IndexError") /\ UNCHANGED <<files, dirs, infos, fileinfos, moves, dup_i>>
           ELSE /\ infos' = infos2
                /\ fileinfos' = IF args.move_suspected_duplicates
                                THEN RemoveAt(fileinfos, fileinfo_index_to_update)
                                ELSE fileinfos
                /\ moves' = Append(moves, MoveRecord(duplicate_fileinfo, i, duplicate_filepath,
                                                     infos2[duplicate_fileinfo].filepath,
                                                     new_duplicate_filepath, m, files,
                                                     master_noext))
                /\ files' = m.files
                /\ dirs' = m.dirs
                /\ IF m.raised # ""
                   THEN Crash(m.raised) /\ dup_i' = dup_i
                   ELSE dup_i' = dup_i + 1 /\ UNCHANGED <<pc, error>>
    /\ UNCHANGED <<frame, args, cacheFile, cache, walk, file_list, root, keyed_file_list,
                   origin, edges, todo, similar, master_noext, saves>>

\* the inner loop is over
EndGroup ==
    /\ pc = "relocate"
    /\ similar # <<>>
    /\ dup_i > Len(similar)
    /\ similar' = <<>>
    /\ UNCHANGED <<frame, args, files, dirs, cacheFile, cache, pc, moves, saves, error,
                   edges, todo, dup_i, master_noext>>
    /\ UNCHANGED scanVars

\* the loop over the groups is over
EndRelocation ==
    /\ pc = "relocate"
    /\ similar = <<>>
    /\ todo = {}
    /\ pc' = "save2"
    /\ UNCHANGED <<frame, args, files, dirs, cacheFile, cache, moves, saves, error>>
    /\ UNCHANGED scanVars
    /\ UNCHANGED groupVars

Next ==
    \/ Startup
    \/ NextDirectory
    \/ ScanFile
    \/ EndScan
    \/ SaveAfterScan
    \/ FindDuplicates
    \/ BeginGroup
    \/ RenameDuplicate
    \/ EndGroup
    \/ EndRelocation
    \/ SaveAfterRelocation

Spec == Init /\ [][Next]_vars

(***************************************************************************)
(* hamming followed statement by statement (cleanup.py:130-136), on every   *)
(* pair of hashes of HashBits bits.  No run is in progress.                *)
(***************************************************************************)
\* __main__ is not running: the command line is the default one, nothing is
\* scanned
NoRun ==
    /\ args = [filename_match |-> FALSE, crc_match |-> FALSE,
               move_suspected_duplicates |-> FALSE, recursive |-> FALSE,
               remove_small |-> FALSE, threshold |-> SIMILARITY_THRESH]
    /\ cacheFile = [exists |-> FALSE, lines |-> <<>>]
    /\ cache = EmptyDict
    /\ pc = "none"
    /\ walk = <<>>
    /\ file_list = {}
    /\ root = <<>>
    /\ infos = EmptyDict
    /\ fileinfos = <<>>
    /\ keyed_file_list = EmptyDict
    /\ edges = {}
    /\ todo = {}
    /\ similar = <<>>
    /\ dup_i = 0
    /\ master_noext = splitext0(Path(<<>>, "", ""))
    /\ origin = EmptyDict
    /\ moves = <<>>
    /\ saves = <<>>
    /\ error = ""

Hashes == 0..(2^HashBits - 1)

\* line 132: h, d = 0, h1 ^ h2
HammingInit ==
    /\ NoRun
    /\ files = EmptyDict
    /\ dirs = {<<>>}
    /\ \E h1 \in Hashes, h2 \in Hashes :
           frame = [fn |-> "hamming", at |-> "while", h1 |-> h1, h2 |-> h2,
                    h |-> 0, d |-> BitXor(h1, h2)]

\* lines 133-135: one iteration of the while loop
HammingIterate ==
    /\ frame.fn = "hamming"
    /\ frame.at = "while"
    /\ frame.d # 0
    /\ frame' = [frame EXCEPT !.h = @ + 1, !.d = BitAnd(@, @ - 1)]
    /\ UNCHANGED <<files, dirs>>
    /\ UNCHANGED runVars

\* line 136: the loop is left and h returned
HammingReturn ==
    /\ frame.fn = "hamming"
    /\ frame.at = "while"
    /\ frame.d = 0
    /\ frame' = [frame EXCEPT !.at = "returned"]
    /\ UNCHANGED <<files, dirs>>
    /\ UNCHANGED runVars

HammingNext ==
    \/ HammingIterate
    \/ HammingReturn

\* the interpreter keeps executing the function until it returns
HammingSpec == HammingInit /\ [][HammingNext]_vars /\ WF_vars(HammingNext)

(***************************************************************************)
(* safely_move_file followed statement by statement (cleanup.py:210-222),  *)
(* for a source path, a requested destination and a set of existing files. *)
(* No run is in progress.                                                  *)
(***************************************************************************)
MoveSources == {PA, PS}

\* the destinations the relocation loop asks for: the master's mirror in the
\* quarantine folder (line 363), a member's versioned name there and in place
\* (line 376), and the source's own path (line 386 after line 384)
MoveTargets(source) ==
    {join(<<DUPE_FOLDER>>, source),
     VersionedPath(splitext0(join(<<DUPE_FOLDER>>, PB)), 1, source.ext),
     VersionedPath(splitext0(PB), 1, source.ext),
     source}

\* line 218-219 for counter k
CandidateTarget(source, target_file_directory, k) ==
    join(target_file_directory, Path(source.dir, source.stem \o "-" \o ToString(k), source.ext))

\* the paths the loop can come to test
TestedPaths(source, target) ==
    {target} \cup {CandidateTarget(source, dirname(target), k) : k \in 0..(MaxCollisions - 1)}

ExistingFiles(P) ==
    [p \in {Norm(x) : x \in P} |-> [origin |-> p, content |-> KOld, mtime |-> InitialMTime]]

\* lines 211-215: the destination's directory is created, the counter is 0
MoveInit ==
    /\ NoRun
    /\ \E source \in MoveSources, there \in BOOLEAN :
           \E target \in MoveTargets(source) :
               \E taken \in SUBSET TestedPaths(source, target) :
                   LET fs == ExistingFiles(taken \cup (IF there THEN {source} ELSE {})) IN
                       /\ files = fs
                       /\ dirs = create_folder(Directories(fs), dirname(target))
                       /\ frame = [fn |-> "safely_move_file", at |-> "while",
                                   fileinfo_filepath |-> source,
                                   requested |-> target,
                                   target_file_directory |-> dirname(target),
                                   target_filepath |-> target,
                                   rename_counter |-> 0,
                                   before |-> fs,
                                   renames |-> 0]

\* the loop with line 220 left out: the counter never advances
MoveIterate_CounterStuck ==
    /\ frame.fn = "safely_move_file"
    /\ frame.at = "while"
    /\ exists(files, frame.target_filepath)
    /\ frame' = [frame EXCEPT
                     !.target_filepath =
                         CandidateTarget(frame.fileinfo_filepath, frame.target_file_directory,
                                         frame.rename_counter)]
    /\ UNCHANGED <<files, dirs>>
    /\ UNCHANGED runVars

\* lines 216-220: the destination exists, the next name is formed
MoveIterate ==
    /\ frame.fn = "safely_move_file"
    /\ frame.at = "while"
    /\ exists(files, frame.target_filepath)
    /\ frame' = [frame EXCEPT
                     !.target_filepath =
                         CandidateTarget(frame.fileinfo_filepath, frame.target_file_directory,
                                         frame.rename_counter),
                     !.rename_counter = @ + 1]
    /\ UNCHANGED dirs
    /\ UNCHANGED files
    /\ UNCHANGED runVars

\* lines 216 and 221-222: the destination is free, os.rename is called
MoveRename ==
    /\ frame.fn = "safely_move_file"
    /\ frame.at = "while"
    /\ ~exists(files, frame.target_filepath)
    /\ IF RenameRaises(files, dirs, frame.fileinfo_filepath, frame.target_filepath)
       THEN /\ files' = files
            /\ frame' = [frame EXCEPT !.at = "raised", !.renames = @ + 1]
       ELSE /\ files' = Rename(files, frame.fileinfo_filepath, frame.target_filepath)
            /\ frame' = [frame EXCEPT !.at = "returned", !.renames = @ + 1]
    /\ UNCHANGED dirs
    /\ UNCHANGED runVars

MoveNext ==
    \/ MoveIterate
    \/ MoveRename

\* the interpreter keeps executing the function until it returns or raises
MoveSpec == MoveInit /\ [][MoveNext]_vars /\ WF_vars(MoveNext)

(***************************************************************************)
(* Properties                                                              *)
(***************************************************************************)
\* the file the scan found at the path of record id
ScannedFile(id) == Norm(origin[id].path)

\* p with a collision disambiguator -k before its extension
Disambiguated(p, k) == [Norm(p) EXCEPT !.stem = p.stem \o "-" \o ToString(k)]

\* the paths p may end at under the collision-avoidance protocol
Destinations(p) == {Norm(p)} \cup {Disambiguated(p, k) : k \in 0..MaxFiles}

InQuarantine(p) == Norm(p).dir # <<>> /\ Head(Norm(p).dir) = DUPE_FOLDER

\* C1: Relocator never overwrites: in every returned call of safely_move_file
\* whose computed destination already held another file, the destination chosen is
\* another path, one that did not exist; the file that moved is the group member
\* being relocated; and the file found at the computed destination is still
\* there, unchanged.  (The claim as stated.)
C1_NeverOverwrites ==
    \A k \in 1..Len(moves) :
        LET mv == moves[k] IN
            (/\ mv.raised = ""
             /\ exists(mv.before, mv.requested)
             /\ mv.before[Norm(mv.requested)].origin # ScannedFile(mv.id)) =>
                /\ Norm(mv.final) # Norm(mv.requested)
                /\ ~exists(mv.before, mv.final)
                /\ exists(mv.after, mv.final)
                /\ mv.after[Norm(mv.final)].origin = ScannedFile(mv.id)
                /\ exists(mv.after, mv.requested)
                /\ mv.after[Norm(mv.requested)] = mv.before[Norm(mv.requested)]

\* C2: in rename-in-place mode the master stays where it is and the member at
\* group index i is renamed from its original path to {masterBaseName}_v{i}{ext}
\* (here: whenever that name is free).  (The claim as stated.)
C2_RenamedInPlace ==
    \A k \in 1..Len(moves) :
        LET mv == moves[k]
            master == infos[similar[1]].filepath
            wanted == VersionedPath(splitext0(master), mv.index, mv.original.ext)
        IN  (~args.move_suspected_duplicates /\ ~exists(mv.before, wanted)) =>
                /\ mv.raised = ""
                /\ exists(mv.after, master)
                /\ mv.after[Norm(master)] = mv.before[Norm(master)]
                /\ exists(mv.after, wanted)
                /\ mv.after[Norm(wanted)].origin = ScannedFile(mv.id)
                /\ ~exists(mv.after, mv.original)

\* C3: in quarantine mode every member of a group is moved into the [Dupes]
\* subtree and leaves its original path: the master to the mirror of its
\* original relative path, the member at index i to the master's new path with
\* _v{i} before the extension (either one with a collision disambiguator when
\* the name is taken).  (The claim as stated.)
C3_Quarantined ==
    \A k \in 1..Len(moves) :
        LET mv == moves[k]
            wanted == IF mv.index = 0 THEN join(<<DUPE_FOLDER>>, mv.original)
                      ELSE VersionedPath(mv.master, mv.index, mv.original.ext)
        IN  args.move_suspected_duplicates =>
                /\ mv.raised = ""
                /\ InQuarantine(mv.final)
                /\ Norm(mv.final) \in Destinations(wanted)
                /\ exists(mv.after, mv.final)
                /\ mv.after[Norm(mv.final)].origin = ScannedFile(mv.id)
                /\ ~exists(mv.after, mv.original)

\* the states in which the last call of write_cache has just returned
JustSaved == pc \in {"group", "done"}

\* C4: cache round trip: after a save, reading the cache file back gives, for
\* every record, an entry under its path with the mtime of its file and the
\* record's own perceptualHash, width, height and checksum, whatever their
\* values, zero and absent included.  (The claim as stated.)
C4_RoundTrip ==
    (JustSaved /\ Len(fileinfos) > 0) =>
        LET r == read_cache(cacheFile) IN
            /\ r.raised = ""
            /\ \A k \in 1..Len(fileinfos) :
                   LET fi == infos[fileinfos[k]] IN
                       /\ fi.filepath \in DOMAIN r.cache
                       /\ r.cache[fi.filepath].mtime = getmtime(files, fi.filepath)
                       /\ r.cache[fi.filepath].phash = fi.phash
                       /\ r.cache[fi.filepath].width = fi.width
                       /\ r.cache[fi.filepath].height = fi.height
                       /\ r.cache[fi.filepath].crc32 = fi.crc32

\* what the Fingerprint Computer derives from the file at path p
Fresh(p) ==
    LET c == files[Norm(p)].content
        image == p.ext \in SUPPORTED_IMAGE_CONTENT_FILE_EXTENSIONS
    IN  [phash |-> IF image THEN c.phash ELSE None,
         width |-> IF image THEN c.width ELSE None,
         height |-> IF image THEN c.height ELSE None,
         crc32 |-> c.crc]

Attributes(r) == [phash |-> r.phash, width |-> r.width, height |-> r.height, crc32 |-> r.crc32]

\* C5: cache trust: during the scan a record is filled from the cache, without
\* recomputation, exactly when the cache has an entry for its path whose mtime
\* equals the live file's; then its four attributes are the entry's, and in
\* every other case all four are the freshly computed ones.
C5_CacheTrust ==
    pc \in {"scan", "save1"} =>
        \A id \in DOMAIN infos :
            LET p == infos[id].filepath
                hit == p \in DOMAIN cache /\ cache[p].mtime = files[Norm(p)].mtime
            IN  /\ origin[id].from = "cache" <=> hit
                /\ hit => Attributes(infos[id]) = Attributes(cache[p])
                /\ ~hit => Attributes(infos[id]) = Fresh(p)

\* C5 witness: a record filled from a trusted entry whose attributes differ
\* from what recomputation would give, beside a record that was computed
C5_Witness ==
    /\ pc = "save1"
    /\ \E id \in DOMAIN infos :
           /\ origin[id].from = "cache"
           /\ Attributes(infos[id]) # Fresh(infos[id].filepath)
    /\ \E id \in DOMAIN infos : origin[id].from = "computed"

\* C6: save is a full rewrite: after a call of write_cache that returned, the
\* cache file holds exactly one line per record of the in-memory collection, in
\* its order, and nothing else, the empty collection included.  (The claim as
\* stated.)
C6_FullRewrite ==
    JustSaved =>
        cacheFile.lines =
            [k \in 1..Len(fileinfos) |->
                CacheLine(infos[fileinfos[k]], getmtime(files, infos[fileinfos[k]].filepath))]

\* the mapping of the well-formed lines of a cache file, later lines winning
WellFormedEntries(lines) ==
    LET good == {k \in 1..Len(lines) : LineParses(lines[k])}
        last(p) == CHOOSE k \in good :
                       lines[k].path = p /\ \A j \in good : lines[j].path = p => j <= k
    IN  [p \in {lines[k].path : k \in good} |-> LineEntry(lines[last(p)])]

\* C7: a malformed cache line is skipped and is not fatal: the run goes on into
\* the scan with a mapping of every well-formed line.  (The claim as stated.)
C7_MalformedSkipped ==
    /\ error # "AttributeError"
    /\ (pc = "scan" /\ cacheFile.exists) => cache = WellFormedEntries(cacheFile.lines)

\* the records with a hash, and the pairs of them closer than limit
Hashed == {x \in DOMAIN infos : infos[x].phash # None}

Close(limit) ==
    {{x, y} : <<x, y>> \in {q \in Hashed \X Hashed :
                               q[1] # q[2] /\ hamming(infos[q[1]].phash, infos[q[2]].phash) < limit}}

\* the records reachable from those of S along the pairs of E
RECURSIVE Reachable(_, _)
Reachable(S, E) ==
    LET T == S \cup {y \in Hashed : \E x \in S : {x, y} \in E} IN
        IF T = S THEN S ELSE Reachable(T, E)

GroupsOf(x) == {key \in DOMAIN keyed_file_list : x \in Range(keyed_file_list[key])}

\* the groups are final from FindDuplicates on
Grouped == pc \in {"relocate", "save2", "done"}

\* C8: transitive grouping: in image-content mode two files with hashes are in
\* the same group exactly when a path of similarity edges (Hamming distance
\* below the threshold in force, SIMILARITY_THRESH) connects them, and no file
\* is in two groups or twice in one.
C8_TransitiveGrouping ==
    (image_content /\ Grouped) =>
        /\ \A E \in {Close(SIMILARITY_THRESH)} :
               \A x \in Hashed :
                   \A R \in {Reachable({x}, E)} :
                       \A y \in Hashed \ {x} :
                           (GroupsOf(x) \cap GroupsOf(y) # {}) <=> y \in R
        /\ \A x \in DOMAIN infos : Cardinality(GroupsOf(x)) <= 1
        /\ \A key \in DOMAIN keyed_file_list :
               Cardinality(Range(keyed_file_list[key])) = Len(keyed_file_list[key])

\* C8 witness: A-B and B-C are edges, A-C is not, and the three share a group
C8_Witness ==
    /\ image_content
    /\ Grouped
    /\ \E a, b, c \in Hashed :
           /\ hamming(infos[a].phash, infos[b].phash) < SIMILARITY_THRESH
           /\ hamming(infos[b].phash, infos[c].phash) < SIMILARITY_THRESH
           /\ hamming(infos[a].phash, infos[c].phash) >= SIMILARITY_THRESH
           /\ \E key \in DOMAIN keyed_file_list : {a, b, c} \subseteq Range(keyed_file_list[key])

\* C9: in image-content mode the similarity loop links a pair of records with
\* hashes exactly when their Hamming distance is below the threshold option of
\* the command line.  (The claim as stated.)
C9_ConfiguredThreshold ==
    (image_content /\ Grouped) => edges = Close(args.threshold)

\* C10: in image-content mode the master of the group being relocated has the
\* largest pixel area width*height of the group.
C10_MasterLargest ==
    (image_content /\ similar # <<>>) =>
        \A k \in 1..Len(similar) :
            infos[similar[1]].width * infos[similar[1]].height
                >= infos[similar[k]].width * infos[similar[k]].height

\* C10 witness: a group with areas 4000, 9000 and 1000 whose master, of area
\* 9000, was neither scanned first nor first in the group amalgamate returned
C10_Witness ==
    /\ image_content
    /\ Len(similar) = 3
    /\ {infos[similar[k]].width * infos[similar[k]].height : k \in 1..3} = {4000, 9000, 1000}
    /\ infos[similar[1]].width * infos[similar[1]].height = 9000
    /\ similar[1] # 1
    /\ \E key \in DOMAIN keyed_file_list :
           Range(keyed_file_list[key]) = Range(similar) /\ keyed_file_list[key][1] # similar[1]

\* C11: a failure of one file's move during relocation (os.rename raising for a
\* reason other than the destination existing) does not end the run: the run
\* is never in the state where the exception of the last call of
\* safely_move_file has left __main__.  (The claim as stated.)
C11_MoveFailureContained ==
    \A k \in 1..Len(moves) :
        (k = Len(moves) /\ moves[k].raised # "") =>
            ~(pc = "crashed" /\ error = moves[k].raised)

\* the files that are no longer at the path the run found them at
Displaced == {p \in DOMAIN files : files[p].origin # p}

\* C12: checkpoint ordering: the first save comes after the scan and before any
\* file has been moved, the second after all relocation: no file is moved
\* before the first save, none after the second, and a run that reaches its
\* end has saved twice.  (The claim as stated.)
C12_CheckpointOrdering ==
    /\ Displaced # {} => Len(saves) >= 1
    /\ moves # <<>> => (Len(saves) >= 1 /\ saves[1].moved = 0)
    /\ Len(saves) >= 2 => saves[2].moved = Len(moves)
    /\ pc = "done" => Len(saves) = 2

\* C12 as amended: the two saves bracket the relocation of the duplicates: no
\* call of safely_move_file precedes the first save, none follows the second,
\* and a run that reaches its end has saved twice; the files moved before the
\* first save are the too-small files of a run with -s, moved into the junk
\* folder during the scan.
C12_RelocationBetweenSaves ==
    /\ moves # <<>> => (Len(saves) >= 1 /\ saves[1].moved = 0)
    /\ Len(saves) >= 2 => saves[2].moved = Len(moves)
    /\ pc = "done" => Len(saves) = 2
    /\ (Displaced # {} /\ saves = <<>>) =>
           /\ args.remove_small
           /\ pc \in {"scan", "save1"}
           /\ \A p \in Displaced : Head(p.dir) = JUNK_FOLDER

\* C12 witness: a finished run that moved a too-small file during the scan and
\* relocated a group between its two saves
C12_Witness ==
    /\ pc = "done"
    /\ \E p \in Displaced : Head(p.dir) = JUNK_FOLDER
    /\ Len(moves) >= 2
    /\ Len(saves) = 2
    /\ saves[1].moved = 0
    /\ saves[2].moved = Len(moves)

\* the key of a record in filename mode and in checksum mode (lines 318-321)
KeyOf(id) ==
    IF args.filename_match THEN origin[id].path.stem \o origin[id].path.ext
    ELSE infos[id].crc32

UniqueKey(id) == \A other \in (DOMAIN infos) \ {id} : KeyOf(other) # KeyOf(id)

\* the file of record id is where the scan found it
InPlace(id) ==
    /\ ScannedFile(id) \in DOMAIN files
    /\ files[ScannedFile(id)].origin = ScannedFile(id)

\* C13: exact-key grouping excludes singletons: in filename mode and in
\* checksum mode every group has at least two members, all with the group's
\* key, and a file whose key no other scanned file has is in no group and is
\* never moved or renamed.  (The claim as stated.)
C13_NoSingletons ==
    ((args.filename_match \/ args.crc_match) /\ Grouped) =>
        /\ \A key \in DOMAIN keyed_file_list :
               /\ Len(keyed_file_list[key]) >= 2
               /\ \A x \in Range(keyed_file_list[key]) : KeyOf(x) = key
        /\ \A id \in DOMAIN infos :
               UniqueKey(id) => (GroupsOf(id) = {} /\ InPlace(id))

\* C14: in image-content mode a record whose perceptual hash is absent, whether
\* it was computed so or loaded so from the cache, is in no similarity edge and
\* in no group.
C14_NullHashUngrouped ==
    (image_content /\ Grouped) =>
        \A x \in DOMAIN infos :
            infos[x].phash = None =>
                /\ \A e \in edges : x \notin e
                /\ GroupsOf(x) = {}
                /\ x \notin DOMAIN keyed_file_list

\* C14 witness: a group was formed beside a record whose absent hash came from
\* the cache, although its file decodes to a hash within the threshold of a
\* grouped file's
C14_Witness ==
    /\ image_content
    /\ Grouped
    /\ \E x \in DOMAIN infos :
           /\ infos[x].phash = None
           /\ origin[x].from = "cache"
           /\ \E e \in edges : \E y \in e :
                  /\ ScannedFile(x) \in DOMAIN files
                  /\ files[ScannedFile(x)].content.phash # None
                  /\ hamming(files[ScannedFile(x)].content.phash, infos[y].phash)
                         < SIMILARITY_THRESH

\* bit i of a, and the number of the HashBits positions in which a and b differ
Bit(a, i) == (a \div (2^i)) % 2

DifferingBits(a, b) == Cardinality({i \in 0..(HashBits - 1) : Bit(a, i) # Bit(b, i)})

\* C15: for all unsigned hashes a and b (of HashBits bits), hamming(a, b)
\* terminates and returns the number of bit positions in which a and b differ;
\* so hamming(a, a) = 0 and hamming(a, b) = hamming(b, a).
C15_Hamming ==
    /\ [](frame.at = "returned" =>
            /\ frame.h = DifferingBits(frame.h1, frame.h2)
            /\ frame.h = hamming(frame.h1, frame.h2)
            /\ hamming(frame.h1, frame.h1) = 0
            /\ hamming(frame.h2, frame.h1) = frame.h)
    /\ <>(frame.at = "returned")

\* C15 witness: a call returned 3 for two different nonzero hashes, the first
\* the larger
C15_Witness ==
    /\ frame.fn = "hamming"
    /\ frame.at = "returned"
    /\ frame.h1 > frame.h2
    /\ frame.h2 > 0
    /\ frame.h = 3

\* C16: collision disambiguation shape: whenever the requested destination of a
\* call of safely_move_file already exists, the destination the call chooses
\* is in the requested destination's directory and is named as the requested
\* destination with -k (k = 0, 1, ...) before the extension, for masters and
\* members alike.  (The claim as stated.)
C16_DisambiguationShape ==
    \A k \in 1..Len(moves) :
        LET mv == moves[k] IN
            exists(mv.before, mv.requested) =>
                \E j \in 0..(MaxFiles + MaxPreexisting) :
                    Norm(mv.final) = Disambiguated(mv.requested, j)

\* C17: in image-content mode the members of the group being relocated are in
\* descending order of pixel area, and members of equal area are in the order
\* in which the scan appended them to the record collection (the record ids
\* count the appends), so the first scanned of the largest is the master.
\* (The claim as stated.)
C17_TiesInScanOrder ==
    (image_content /\ similar # <<>>) =>
        \A i, j \in 1..Len(similar) :
            i < j =>
                /\ Area(infos[similar[i]]) >= Area(infos[similar[j]])
                /\ Area(infos[similar[i]]) = Area(infos[similar[j]]) => similar[i] < similar[j]

\* the call of safely_move_file is over
MoveOver == frame.at \in {"returned", "raised"}

\* C18: the collision-avoidance loop of safely_move_file terminates: for every
\* set of existing paths the loop comes to a destination that did not exist,
\* after at most as many iterations as there are files, and os.rename is then
\* called exactly once, with that destination; the outcome is the one the run
\* takes from safely_move_file.
C18_LoopTerminates ==
    /\ <>MoveOver
    /\ [](MoveOver =>
            /\ ~exists(frame.before, frame.target_filepath)
            /\ frame.rename_counter <= Cardinality(DOMAIN frame.before)
            /\ frame.renames = 1
            /\ frame.at = "returned" =>
                   files = Rename(frame.before, frame.fileinfo_filepath, frame.target_filepath)
            /\ frame.at = "raised" => files = frame.before
            /\ \A r \in {safely_move_file(frame.before, dirs, frame.fileinfo_filepath,
                                          frame.requested)} :
                   /\ r.final = frame.target_filepath
                   /\ r.files = files
                   /\ r.raised = "" <=> frame.at = "returned")
    /\ [](frame.renames <= 1)

\* C18 witness: the requested destination and every disambiguated name but the
\* last were taken, and the file was renamed to the last
C18_Witness ==
    /\ frame.fn = "safely_move_file"
    /\ frame.at = "returned"
    /\ frame.rename_counter = MaxCollisions
    /\ exists(frame.before, frame.requested)
    /\ exists(files, frame.target_filepath)
    /\ ~exists(files, frame.fileinfo_filepath)

\* whether call mv of safely_move_file moved the file the run found at path o
MovedBy(mv, o) ==
    \E p \in DOMAIN mv.before :
        /\ mv.before[p].origin = o
        /\ (p \notin DOMAIN mv.after \/ mv.after[p].origin # o)

\* C19: in every mode the groups of a run are pairwise disjoint: a record is in
\* at most one group and once in it, it is relocated by at most one call of
\* safely_move_file and is the master of at most one group, and no scanned
\* file is moved or renamed more than once.
C19_DisjointGroups ==
    Grouped =>
        /\ \A x \in DOMAIN infos : Cardinality(GroupsOf(x)) <= 1
        /\ \A key \in DOMAIN keyed_file_list :
               Cardinality(Range(keyed_file_list[key])) = Len(keyed_file_list[key])
        /\ \A j, k \in 1..Len(moves) : moves[j].id = moves[k].id => j = k
        /\ \A x \in DOMAIN infos :
               /\ Cardinality({k \in 1..Len(moves) : moves[k].id = x /\ moves[k].index = 0}) <= 1
               /\ Cardinality({k \in 1..Len(moves) : MovedBy(moves[k], ScannedFile(x))}) <= 1

\* C19 witness: a finished run relocated two groups of two files each, four
\* calls moving four different files
C19_Witness ==
    /\ pc = "done"
    /\ Cardinality(DOMAIN keyed_file_list) = 2
    /\ Len(moves) = 4
    /\ \A x \in DOMAIN infos :
           Cardinality({k \in 1..Len(moves) : MovedBy(moves[k], ScannedFile(x))}) = 1

\* C20: record/filesystem agreement at the final save: when the second
\* write_cache runs, every record of the collection has a path at which its
\* own file exists; in quarantine mode the records of all relocated members,
\* the master included, are gone from the collection; in rename-in-place mode
\* the record of each renamed member has the path its file was moved to, also
\* when the collision-avoidance loop chose another destination than the one
\* requested.  (The claim as stated.)
C20_RecordsAgree ==
    pc = "save2" =>
        /\ \A k \in 1..Len(fileinfos) :
               LET fi == infos[fileinfos[k]] IN
                   /\ exists(files, fi.filepath)
                   /\ files[Norm(fi.filepath)].origin = ScannedFile(fileinfos[k])
        /\ args.move_suspected_duplicates =>
               \A k \in 1..Len(moves) : moves[k].id \notin Range(fileinfos)
        /\ ~args.move_suspected_duplicates =>
               \A k \in 1..Len(moves) :
                   Norm(infos[moves[k].id].filepath) = Norm(moves[k].final)

====
